---- MODULE Spec2Model ----
(***************************************************************************)
(* A model of the arena-based tree `Stac` of stac-rs (src/src/stac/mod.rs) *)
(* with its lazy resolution through an injected reader.                    *)
(*                                                                         *)
(* Rust's Option<T> is modelled as a sequence of length at most one:       *)
(* None is <<>> and Some(x) is <<x>>.  A Handle(n) is the number n; the    *)
(* node of Handle(n) is nodes[n + 1] (TLA+ sequences start at 1).          *)
(***************************************************************************)
EXTENDS Integers, Sequences, FiniteSets, TLC

\* The number of public operations applied to a store after construction, and
\* the number of nodes of the arena.
MaxOps == 3
MaxNodes == 5

None == <<>>
Some(x) == <<x>>

ROOT_HANDLE == 0

(***************************************************************************)
(* Hrefs.  A location is a path: `up` leading ".." segments followed by    *)
(* the named segments `segs`; `abs` marks an absolute path.                *)
(***************************************************************************)
P(segs) == [abs |-> FALSE, up |-> 0, segs |-> segs]
Rel(up, segs) == [abs |-> FALSE, up |-> up, segs |-> segs]

Min(a, b) == IF a < b THEN a ELSE b

\* The segments of the directory that contains href.
directory(href) ==
    IF href.segs = <<>> THEN <<>> ELSE SubSeq(href.segs, 1, Len(href.segs) - 1)

\* Href::join: an absolute reference is returned as it is, a relative one is
\* resolved against the directory of base, collapsing the ".." segments.
join(base, ref) ==
    IF ref.abs THEN ref
    ELSE LET dir == directory(base)
             pop == Min(ref.up, Len(dir))
         IN [abs |-> base.abs,
             up |-> IF base.abs THEN 0 ELSE base.up + (ref.up - pop),
             segs |-> SubSeq(dir, 1, Len(dir) - pop) \o ref.segs]

(***************************************************************************)
(* Links and documents.                                                    *)
(***************************************************************************)
Link(href, rel) == [href |-> href, rel |-> rel]

is_structural(link) == link.rel \in {"root", "parent", "child", "item"}
is_child(link) == link.rel = "child"
is_item(link) == link.rel = "item"
is_parent(link) == link.rel = "parent"
is_root(link) == link.rel = "root"

Object(type, id, links) == [type |-> type, id |-> id, links |-> links]

\* Object::root_link: the first link with rel "root", if any.
RECURSIVE first_link(_, _, _)
first_link(links, rel, i) ==
    IF i > Len(links) THEN None
    ELSE IF links[i].rel = rel THEN Some(links[i])
    ELSE first_link(links, rel, i + 1)

root_link(object) == first_link(object.links, "root", 1)

(***************************************************************************)
(* The documents and locations of the checked universe.                    *)
(***************************************************************************)
RootL == P(<<"r", "catalog.json">>)
ChildL == P(<<"r", "a", "catalog.json">>)
ItemL == P(<<"r", "a", "i.json">>)
NewL == P(<<"n", "catalog.json">>)

PlainRoot == Object("Catalog", "root", <<>>)
RootDoc ==
    Object("Catalog", "examples",
           << Link(Rel(0, <<"a", "catalog.json">>), "child") >>)
ChildDoc ==
    Object("Collection", "a",
           << Link(Rel(1, <<"catalog.json">>), "root"),
              Link(Rel(1, <<"catalog.json">>), "parent"),
              Link(Rel(0, <<"i.json">>), "item") >>)
ItemDoc ==
    Object("Item", "i",
           << Link(Rel(1, <<"catalog.json">>), "root"),
              Link(Rel(0, <<"catalog.json">>), "parent") >>)
Lonely == Object("Catalog", "lonely", <<>>)
Located ==
    Object("Catalog", "child-catalog",
           << Link(Rel(1, <<"catalog.json">>), "root") >>)
SecondItem ==
    Object("Item", "second-item",
           << Link(P(<<"other", "parent.json">>), "parent") >>)
BackDoc ==
    Object("Catalog", "back",
           << Link(Rel(1, <<"catalog.json">>), "child") >>)
\* A catalog with three children, as data/catalog.json of the module docs.
WideDoc ==
    Object("Catalog", "wide",
           << Link(Rel(0, <<"a", "catalog.json">>), "child"),
              Link(Rel(0, <<"b", "catalog.json">>), "child"),
              Link(Rel(0, <<"c", "catalog.json">>), "child") >>)
\* An item whose parent link names the location of the root catalog.
ThirdItem ==
    Object("Item", "third-item", << Link(RootL, "parent") >>)

\* The files the reader can read; every other location is a read error.
Files == {RootL, ChildL, ItemL}
FileAt(href) ==
    IF href = RootL THEN RootDoc
    ELSE IF href = ChildL THEN ChildDoc
    ELSE ItemDoc

\* What a store is constructed from, and what is added to it:
\* (object, optional href) pairs, the ObjectHrefTuple of the source.
NewInputs ==
    { <<PlainRoot, None>>, <<RootDoc, Some(RootL)>>, <<ChildDoc, Some(ChildL)>> }
TreeInputs == { <<PlainRoot, None>>, <<RootDoc, Some(RootL)>> }
AddInputs ==
    { <<Lonely, None>>, <<ChildDoc, Some(ChildL)>>, <<Located, Some(ChildL)>>,
      <<BackDoc, Some(ChildL)>> }
ChildInputs == { <<Lonely, None>>, <<SecondItem, None>> }
HrefInputs == {RootL, NewL}
LinkInputs == {Link(P(<<"an-href">>), "a-rel")}

(***************************************************************************)
(* The store.  A store value is a record of the fields of `Stac`, the      *)
(* number of reads the reader has served per location, and a flag that     *)
(* says whether an operation panicked.                                     *)
(***************************************************************************)
DefaultNode ==
    [object |-> None, children |-> <<>>, parent |-> None, href |-> None,
     is_from_item_link |-> FALSE, next_href |-> None]

EmptyStac ==
    [nodes |-> <<DefaultNode>>, free_nodes |-> <<>>, hrefs |-> <<>>,
     reads |-> <<>>, panic |-> FALSE]

node(s, handle) == s.nodes[handle + 1]

Handles(s) == {i - 1 : i \in DOMAIN s.nodes}

\* Stac::parent, Stac::children and Stac::href.
parent(s, handle) == node(s, handle).parent
children(s, handle) == node(s, handle).children
href_of(s, handle) == node(s, handle).href

\* The index `hrefs`: HashMap::get, insert and remove.
hrefs_get(s, href) == IF href \in DOMAIN s.hrefs THEN Some(s.hrefs[href]) ELSE None
hrefs_insert(s, href, handle) ==
    [s EXCEPT !.hrefs = [x \in (DOMAIN s.hrefs) \cup {href} |->
                            IF x = href THEN handle ELSE s.hrefs[x]]]
hrefs_remove(s, href) ==
    [s EXCEPT !.hrefs = [x \in (DOMAIN s.hrefs) \ {href} |-> s.hrefs[x]]]

\* The reader: counts the request, and answers with the file or an error.
reader_read(s, href) ==
    [s EXCEPT !.reads = [x \in (DOMAIN s.reads) \cup {href} |->
                            (IF x \in DOMAIN s.reads THEN s.reads[x] ELSE 0)
                            + (IF x = href THEN 1 ELSE 0)]]
readable(href) == href \in Files

\* IndexSet: contains, insert (at the end unless present), swap_remove (the
\* last element takes the place of the removed one) and shift_remove.
contains(set, x) == \E i \in DOMAIN set : set[i] = x
index_of(set, x) == CHOOSE i \in DOMAIN set : set[i] = x
insert(set, x) == IF contains(set, x) THEN set ELSE Append(set, x)
shift_remove(set, x) ==
    IF ~contains(set, x) THEN set
    ELSE LET i == index_of(set, x)
         IN SubSeq(set, 1, i - 1) \o SubSeq(set, i + 1, Len(set))
swap_remove(set, x) ==
    IF ~contains(set, x) THEN set
    ELSE LET i == index_of(set, x)
             n == Len(set)
         IN IF i = n THEN SubSeq(set, 1, n - 1)
            ELSE [j \in 1..(n - 1) |-> IF j = i THEN set[n] ELSE set[j]]

\* connect that leaves the child in the child set of its old parent.
connect_keeping_old_parent(s, p, child) ==
    [s EXCEPT !.nodes[child + 1].parent = Some(p),
              !.nodes[p + 1].children = insert(@, child)]

\* Stac::connect: the child leaves the child set of its old parent (a panic
\* when that parent does not know the child), then joins the new parent.
connect(s, p, child) ==
    LET attach(s1) ==
            [s1 EXCEPT !.nodes[child + 1].parent = Some(p),
                       !.nodes[p + 1].children = insert(@, child)]
        detach(old) ==
            IF old = None THEN attach(s)
            ELSE IF contains(children(s, old[1]), child)
            THEN attach([s EXCEPT !.nodes[old[1] + 1].children = swap_remove(@, child)])
            ELSE [s EXCEPT !.panic = TRUE]
    IN detach(parent(s, child))

disconnect(s, p, child) ==
    [s EXCEPT !.nodes[child + 1].parent = None,
              !.nodes[p + 1].children = shift_remove(@, child)]

\* add_node answers with the store and the handle of the new node.
add_node(s) ==
    IF s.free_nodes # <<>>
    THEN [s |-> [s EXCEPT !.free_nodes = SubSeq(@, 1, Len(@) - 1)],
          handle |-> s.free_nodes[Len(s.free_nodes)]]
    ELSE [s |-> [s EXCEPT !.nodes = Append(@, DefaultNode)],
          handle |-> Len(s.nodes)]

\* Stac::is_item: the object says whether a resolved node is an item, the
\* flag of the node whether an unresolved one is.
node_is_item(s, handle) ==
    IF node(s, handle).object # None
    THEN node(s, handle).object[1].type = "Item"
    ELSE node(s, handle).is_from_item_link

\* set_href that drops the object of the node, to be read again at the new
\* href.
set_href_unresolving(s, handle, href) ==
    [hrefs_insert(s, href, handle) EXCEPT !.nodes[handle + 1].href = Some(href),
                                          !.nodes[handle + 1].object = None]

set_href(s, handle, href) ==
    [hrefs_insert(s, href, handle) EXCEPT !.nodes[handle + 1].href = Some(href)]

\* other_node that reads the target of the link as soon as it creates its node.
other_node_eager(s, other_href) ==
    LET filled(a) ==
            [s |-> [set_href(reader_read(a.s, other_href), a.handle, other_href)
                       EXCEPT !.nodes[a.handle + 1].object =
                              IF readable(other_href) THEN Some(FileAt(other_href))
                              ELSE None],
             handle |-> a.handle]
        found(other) ==
            IF other # None THEN [s |-> s, handle |-> other[1]]
            ELSE filled(add_node(s))
    IN found(hrefs_get(s, other_href))

\* `let other = ...` of set_object: the node the index has at the href of the
\* link, or else a new node that holds the href and no object.  Answers with
\* the store and the handle.
other_node(s, other_href) ==
    LET placed(a) == [s |-> set_href(a.s, a.handle, other_href), handle |-> a.handle]
        found(other) ==
            IF other # None THEN [s |-> s, handle |-> other[1]]
            ELSE placed(add_node(s))
    IN found(hrefs_get(s, other_href))

\* scan_links that does nothing for a parent link.
RECURSIVE scan_links_ignoring_parent(_, _, _, _, _)
scan_links_ignoring_parent(s, handle, links, href, i) ==
    LET link == links[i]
        linked(s1, other) ==
            IF is_item(link)
            THEN connect([s1 EXCEPT !.nodes[other + 1].is_from_item_link = TRUE],
                         handle, other)
            ELSE IF is_child(link) THEN connect(s1, handle, other)
            ELSE s1
        next(o) ==
            scan_links_ignoring_parent(linked(o.s, o.handle), handle, links, href, i + 1)
    IN IF i > Len(links) \/ s.panic THEN s
       ELSE IF ~is_structural(link)
       THEN scan_links_ignoring_parent(s, handle, links, href, i + 1)
       ELSE next(other_node(s, IF href # None THEN join(href[1], link.href)
                               ELSE link.href))

\* The loop of set_object over the links of the object, from link i on: the
\* node of the link is connected below the node (child, item) or above it
\* (parent); for a root link the node is only looked up or created.
RECURSIVE scan_links(_, _, _, _, _)
scan_links(s, handle, links, href, i) ==
    LET link == links[i]
        linked(s1, other) ==
            IF is_item(link)
            THEN connect([s1 EXCEPT !.nodes[other + 1].is_from_item_link = TRUE],
                         handle, other)
            ELSE IF is_child(link) THEN connect(s1, handle, other)
            ELSE IF is_parent(link) THEN connect(s1, other, handle)
            ELSE s1
        next(o) == scan_links(linked(o.s, o.handle), handle, links, href, i + 1)
    IN IF i > Len(links) \/ s.panic THEN s
       ELSE IF ~is_structural(link) THEN scan_links(s, handle, links, href, i + 1)
       ELSE next(other_node(s, IF href # None THEN join(href[1], link.href)
                               ELSE link.href))

\* set_object that stores the object without its structural links.
set_object_stripping_links(s, handle, object, href) ==
    LET store(s1) ==
            IF s1.panic THEN s1
            ELSE IF href # None
            THEN [set_href(s1, handle, href[1])
                     EXCEPT !.nodes[handle + 1].object =
                                Some([object EXCEPT !.links =
                                         SelectSeq(@, LAMBDA l : ~is_structural(l))])]
            ELSE [s1 EXCEPT !.nodes[handle + 1].href = None,
                            !.nodes[handle + 1].object =
                                Some([object EXCEPT !.links =
                                         SelectSeq(@, LAMBDA l : ~is_structural(l))])]
    IN store(scan_links(s, handle, object.links, href, 1))

set_object(s, handle, object, href) ==
    LET store(s1) ==
            IF s1.panic THEN s1
            ELSE IF href # None
            THEN [set_href(s1, handle, href[1])
                     EXCEPT !.nodes[handle + 1].object = Some(object)]
            ELSE [s1 EXCEPT !.nodes[handle + 1].href = None,
                            !.nodes[handle + 1].object = Some(object)]
    IN store(scan_links(s, handle, object.links, href, 1))

\* ensure_resolved that reads the href of the node whether or not the node
\* has its object.
ensure_resolved_without_cache(s, handle) ==
    LET read(s1, href) ==
            IF readable(href)
            THEN [s |-> set_object(s1, handle, FileAt(href), Some(href)), err |-> ""]
            ELSE [s |-> s1, err |-> "Io"]
        fetch(href) ==
            read(reader_read([s EXCEPT !.nodes[handle + 1].href = None], href), href)
    IN IF node(s, handle).href # None THEN fetch(node(s, handle).href[1])
       ELSE IF node(s, handle).object # None THEN [s |-> s, err |-> ""]
       ELSE [s |-> s, err |-> "UnresolvableNode"]

\* ensure_resolved that gives up on every node without an object.
ensure_resolved_never_reading(s, handle) ==
    IF node(s, handle).object # None THEN [s |-> s, err |-> ""]
    ELSE [s |-> s, err |-> "UnresolvableNode"]

\* ensure_resolved answers with the store and the error ("" when Ok).  The
\* href is taken from the node before the read.
ensure_resolved(s, handle) ==
    LET read(s1, href) ==
            IF readable(href)
            THEN [s |-> set_object(s1, handle, FileAt(href), Some(href)), err |-> ""]
            ELSE [s |-> s1, err |-> "Io"]
        fetch(href) ==
            read(reader_read([s EXCEPT !.nodes[handle + 1].href = None], href), href)
    IN IF node(s, handle).object # None THEN [s |-> s, err |-> ""]
       ELSE IF node(s, handle).href = None THEN [s |-> s, err |-> "UnresolvableNode"]
       ELSE fetch(node(s, handle).href[1])

\* Stac::add answers with the store and the handle.
add(s, object, href) ==
    LET set(a) == [s |-> set_object(a.s, a.handle, object, href), handle |-> a.handle]
        found(other) ==
            set(IF other # None THEN [s |-> s, handle |-> other[1]] ELSE add_node(s))
    IN found(IF href # None THEN hrefs_get(s, href[1]) ELSE None)

\* add_child that leaves the child below the parent its own parent link named.
add_child_keeping_link_parent(s, p, object, href) ==
    LET attach(a) ==
            [s |-> IF a.s.panic \/ parent(a.s, a.handle) # None THEN a.s
                   ELSE connect(a.s, p, a.handle),
             handle |-> a.handle]
    IN attach(add(s, object, href))

add_child(s, p, object, href) ==
    LET attach(a) ==
            [s |-> IF a.s.panic THEN a.s ELSE connect(a.s, p, a.handle),
             handle |-> a.handle]
    IN attach(add(s, object, href))

\* The loop of remove over the children taken from the node, from child i on.
RECURSIVE disconnect_all(_, _, _, _)
disconnect_all(s, handle, taken, i) ==
    IF i > Len(taken) THEN s
    ELSE disconnect_all(disconnect(s, handle, taken[i]), handle, taken, i + 1)

\* The body of remove after the check of the root.
remove_node(s, handle) ==
    LET freed(s1, object, href) ==
            [s |-> [(IF href # None THEN hrefs_remove(s1, href[1]) ELSE s1)
                       EXCEPT !.nodes[handle + 1].href = None,
                              !.nodes[handle + 1].object = None,
                              !.free_nodes = Append(@, handle)],
             err |-> "", ret |-> <<object, href>>]
        left(s1) == freed(s1, node(s1, handle).object, node(s1, handle).href)
        orphaned(s1, old) ==
            IF old # None
            THEN left(disconnect([s1 EXCEPT !.nodes[handle + 1].parent = None],
                                 old[1], handle))
            ELSE left(s1)
        emptied(s1) == orphaned(s1, parent(s1, handle))
    IN emptied(disconnect_all([s EXCEPT !.nodes[handle + 1].children = <<>>],
                              handle, children(s, handle), 1))

\* remove without the check of the root.
remove_without_root_check(s, handle) == remove_node(s, handle)

\* remove that leaves the parent of the removed node in place.
remove_keeping_parent(s, handle) ==
    IF handle = ROOT_HANDLE
    THEN [s |-> s, err |-> "CannotRemoveRoot", ret |-> <<>>]
    ELSE [remove_node(s, handle) EXCEPT !.s.nodes[handle + 1].parent = parent(s, handle)]

\* Stac::remove answers with the store, the error and the (object, href) pair.
remove(s, handle) ==
    IF handle = ROOT_HANDLE
    THEN [s |-> s, err |-> "CannotRemoveRoot", ret |-> <<>>]
    ELSE remove_node(s, handle)

take(s, handle) ==
    [s |-> [s EXCEPT !.nodes[handle + 1].object = None],
     ret |-> node(s, handle).object]

take_href(s, handle) ==
    [s |-> [s EXCEPT !.nodes[handle + 1].href = None],
     ret |-> node(s, handle).href]

add_link(s, handle, link) ==
    LET push(r) ==
            IF r.err # "" \/ r.s.panic THEN r
            ELSE [s |-> [r.s EXCEPT !.nodes[handle + 1].object =
                             Some([@[1] EXCEPT !.links = Append(@, link)])],
                  err |-> ""]
    IN push(ensure_resolved(s, handle))

rooted(s, object, href) ==
    [s |-> set_object(s, ROOT_HANDLE, object, href), handle |-> ROOT_HANDLE]

\* new_with_reader that makes the object the root whatever its root link says.
new_with_reader_always_rooted(object, href) ==
    [s |-> rooted(EmptyStac, object, href).s, handle |-> ROOT_HANDLE, err |-> ""]

\* Stac::new_with_reader: answers with the store, the handle of the object and
\* the error ("" when Ok).  The read of the root location is a read of the
\* reader that the store then owns; the object is added without its href.
new_with_reader(object, href) ==
    LET ok(a) == [s |-> a.s, handle |-> a.handle, err |-> ""]
        below(s1, root_href) ==
            IF readable(root_href)
            THEN ok(add(rooted(s1, FileAt(root_href), Some(root_href)).s, object, None))
            ELSE [s |-> s1, handle |-> ROOT_HANDLE, err |-> "Io"]
        from(root_href) ==
            IF href # None /\ href[1] = root_href
            THEN ok(rooted(EmptyStac, object, href))
            ELSE below(reader_read(EmptyStac, root_href), root_href)
        with(link) ==
            IF link = None THEN ok(rooted(EmptyStac, object, href))
            ELSE from(IF href # None THEN join(href[1], link[1].href) ELSE link[1].href)
    IN with(root_link(object))

(***************************************************************************)
(* Layout.  The href that layout gives a node is kept with the node        *)
(* (Stac::next_href, Stac::set_next_href); links are made relative from    *)
(* one such href to another.                                               *)
(***************************************************************************)
next_href(s, handle) == node(s, handle).next_href

set_next_href(s, handle, href) ==
    [s EXCEPT !.nodes[handle + 1].next_href = Some(href)]

\* The number of leading segments that a and b have in common.
common(a, b) ==
    CHOOSE k \in 0..Min(Len(a), Len(b)) :
        /\ \A i \in 1..k : a[i] = b[i]
        /\ k = Min(Len(a), Len(b)) \/ a[k + 1] # b[k + 1]

\* Href::make_relative: the reference that leads from the directory of from
\* to the href to.
make_relative(from, to) ==
    Rel(Len(directory(from)) - common(directory(from), directory(to)),
        SubSeq(to.segs, common(directory(from), directory(to)) + 1, Len(to.segs)))

failed(r) == r.err # "" \/ r.s.panic

remove_structural_links(s, handle) ==
    LET retain(r) ==
            IF failed(r) THEN r
            ELSE [s |-> [r.s EXCEPT !.nodes[handle + 1].object =
                             Some([@[1] EXCEPT !.links =
                                      SelectSeq(@, LAMBDA l : ~is_structural(l))])],
                  err |-> ""]
    IN retain(ensure_resolved(s, handle))

\* The file name that BestPractices gives an object.
file_name_of(object) ==
    IF object.type = "Item" THEN object.id \o ".json"
    ELSE IF object.type = "Catalog" THEN "catalog.json"
    ELSE "collection.json"

\* BestPractices::next_href: answers with the store, the error and the href.
\* root is the directory of the layout.
BestPractices(root, s, handle) ==
    LET named(r, dir) ==
            IF failed(r) THEN [s |-> r.s, err |-> r.err, href |-> None]
            ELSE [s |-> r.s, err |-> "",
                  href |-> Some(P(dir \o <<file_name_of(node(r.s, handle).object[1])>>))]
        nested(r, dir) ==
            IF failed(r) THEN [s |-> r.s, err |-> r.err, href |-> None]
            ELSE named(r, dir \o <<node(r.s, handle).object[1].id>>)
    IN IF parent(s, handle) # None
       THEN IF next_href(s, parent(s, handle)[1]) = None
            THEN [s |-> s, err |-> "MissingHref", href |-> None]
            ELSE nested(ensure_resolved(s, handle),
                        directory(next_href(s, parent(s, handle)[1])[1]))
       ELSE named(ensure_resolved(s, handle), root)

\* Layout::new and Layout::with_next_href: the directory of the layout and
\* the implementation of NextHref it uses.
Layout_new(root) == [root |-> root, next_href |-> "BestPractices"]
with_next_href(self, strategy) == [self EXCEPT !.next_href = strategy]

\* Href::file_name, and Href::rebase: the href below the directory to that
\* has the place href has below the directory of from; None when href is not
\* below that directory.
file_name(href) == href.segs[Len(href.segs)]

rebase(href, from, to) ==
    IF /\ Len(directory(from)) < Len(href.segs)
       /\ SubSeq(href.segs, 1, Len(directory(from))) = directory(from)
    THEN Some(P(to \o SubSeq(href.segs, Len(directory(from)) + 1, Len(href.segs))))
    ELSE None

\* Rebase::next_href: answers with the store, the error and the href.
Rebase(root, s, handle) ==
    IF handle = ROOT_HANDLE
    THEN IF href_of(s, handle) = None
         THEN [s |-> s, err |-> "MissingHref", href |-> None]
         ELSE [s |-> s, err |-> "",
               href |-> Some(P(root \o <<file_name(href_of(s, handle)[1])>>))]
    ELSE IF href_of(s, handle) = None \/ href_of(s, ROOT_HANDLE) = None
         THEN [s |-> s, err |-> "MissingHref", href |-> None]
         ELSE IF rebase(href_of(s, handle)[1], href_of(s, ROOT_HANDLE)[1], root) = None
         THEN [s |-> s, err |-> "Rebase", href |-> None]
         ELSE [s |-> s, err |-> "",
               href |-> rebase(href_of(s, handle)[1], href_of(s, ROOT_HANDLE)[1], root)]

\* <N as NextHref>::next_href for the N of the layout.
NextHref(self, s, handle) ==
    IF self.next_href = "Rebase" THEN Rebase(self.root, s, handle)
    ELSE BestPractices(self.root, s, handle)

\* Layout::set_next_href
layout_set_next_href(self, s, handle) ==
    LET set(r) ==
            IF failed(r) THEN [s |-> r.s, err |-> r.err]
            ELSE [s |-> set_next_href(r.s, handle, r.href[1]), err |-> ""]
    IN set(NextHref(self, s, handle))

\* create_link that makes the href relative from to, not from from.
create_link_from_target(s, from, to, rel) ==
    LET titled(r) ==
            IF failed(r) THEN [s |-> r.s, err |-> r.err, link |-> None]
            ELSE [s |-> r.s, err |-> "",
                  link |-> Some(Link(make_relative(next_href(s, to)[1],
                                                   next_href(s, from)[1]), rel))]
    IN IF next_href(s, from) = None \/ next_href(s, to) = None
       THEN [s |-> s, err |-> "MissingHref", link |-> None]
       ELSE titled(ensure_resolved(s, to))

\* Layout::create_link: answers with the store, the error and the link.  The
\* title of the link is read from the object of to, which is resolved for it.
create_link(s, from, to, rel) ==
    LET titled(r) ==
            IF failed(r) THEN [s |-> r.s, err |-> r.err, link |-> None]
            ELSE [s |-> r.s, err |-> "",
                  link |-> Some(Link(make_relative(next_href(s, from)[1],
                                                   next_href(s, to)[1]), rel))]
    IN IF next_href(s, from) = None \/ next_href(s, to) = None
       THEN [s |-> s, err |-> "MissingHref", link |-> None]
       ELSE titled(ensure_resolved(s, to))

\* stac.add_link(handle, link) for the link that create_link answered with.
add_created_link(r, handle) ==
    IF failed(r) THEN [s |-> r.s, err |-> r.err]
    ELSE add_link(r.s, handle, r.link[1])

\* The body of the loop over the children in Layout::layout_one.
layout_child(self, s, handle, child) ==
    LET linked(r) ==
            IF failed(r) THEN r
            ELSE add_created_link(create_link(r.s, handle, child, "child"), handle)
        located(r) ==
            IF failed(r) THEN r ELSE linked(layout_set_next_href(self, r.s, child))
    IN located(remove_structural_links(s, child))

RECURSIVE layout_children(_, _, _, _, _)
layout_children(self, r, handle, kids, i) ==
    IF failed(r) \/ i > Len(kids) THEN r
    ELSE layout_children(self, layout_child(self, r.s, handle, kids[i]),
                         handle, kids, i + 1)

\* Layout::layout_one: answers with the store and the error.  The loop goes
\* over the children the node has when the loop begins.
layout_one(self, s, handle) ==
    LET looped(r) ==
            IF failed(r) THEN r
            ELSE layout_children(self, r, handle, children(r.s, handle), 1)
        parented(r) ==
            IF failed(r) \/ parent(r.s, handle) = None THEN r
            ELSE add_created_link(
                     create_link(r.s, handle, parent(r.s, handle)[1], "parent"), handle)
        rooted_link(r) ==
            IF failed(r) THEN r
            ELSE add_created_link(create_link(r.s, handle, ROOT_HANDLE, "root"), handle)
        located(r) ==
            IF failed(r) THEN r ELSE layout_set_next_href(self, r.s, handle)
    IN looped(parented(rooted_link(
           IF handle = ROOT_HANDLE THEN located(remove_structural_links(s, handle))
           ELSE [s |-> s, err |-> ""])))

\* Stac::walk with layout_one as the visitor: the first of the handles is
\* visited, and then its children, as they are after the visit, before the
\* other handles.  A walk that has not ended after MaxVisits visits is a walk
\* in a cycle, which never ends.
MaxVisits == 2 * MaxNodes

RECURSIVE walk(_, _, _, _)
walk_on(self, r, handles, visits) ==
    IF failed(r) THEN r
    ELSE walk(self, r, children(r.s, Head(handles)) \o Tail(handles), visits)

walk(self, r, handles, visits) ==
    LET seen(r1) ==
            [s |-> r1.s, err |-> r1.err,
             visited |-> Append(r.visited, Head(handles))]
    IN IF failed(r) \/ handles = <<>> THEN r
       ELSE IF visits = MaxVisits
       THEN [s |-> r.s, err |-> "Endless", visited |-> r.visited]
       ELSE walk_on(self, seen(layout_one(self, r.s, Head(handles))), handles,
                    visits + 1)

\* Layout::layout that hands the store back as it was when the walk fails.
layout_rolling_back(self, s) ==
    LET back(r) == IF failed(r) THEN [r EXCEPT !.s = s] ELSE r
    IN back(walk(self, [s |-> s, err |-> "", visited |-> <<>>], <<ROOT_HANDLE>>, 0))

\* Layout::layout: answers with the store, as the walk left it, the error and
\* the handles visited.
layout(self, s) ==
    walk(self, [s |-> s, err |-> "", visited |-> <<>>], <<ROOT_HANDLE>>, 0)

\* Stac::find for the filter "the id of the object is id": the walk from the
\* handle with get as the visitor, pulled until the first match or the first
\* error.  Answers with the store, the error, the handle found and the
\* handles visited, in the order of the visits.
RECURSIVE find_walk(_, _, _, _, _)
find_next_past_match(r, id, handles, visited, visits) ==
    IF failed(r)
    THEN [s |-> r.s, err |-> r.err, ret |-> None, visited |-> visited]
    ELSE IF node(r.s, Head(handles)).object[1].id = id /\ Tail(handles) = <<>>
                /\ children(r.s, Head(handles)) = <<>>
    THEN [s |-> r.s, err |-> "", ret |-> Some(Head(handles)), visited |-> visited]
    ELSE find_walk(r.s, id, children(r.s, Head(handles)) \o Tail(handles),
                   visited, visits)

find_next(r, id, handles, visited, visits) ==
    IF failed(r)
    THEN [s |-> r.s, err |-> r.err, ret |-> None, visited |-> visited]
    ELSE IF node(r.s, Head(handles)).object[1].id = id
    THEN [s |-> r.s, err |-> "", ret |-> Some(Head(handles)), visited |-> visited]
    ELSE find_walk(r.s, id, children(r.s, Head(handles)) \o Tail(handles),
                   visited, visits)

find_walk(s, id, handles, visited, visits) ==
    IF handles = <<>>
    THEN [s |-> s, err |-> "", ret |-> None, visited |-> visited]
    ELSE IF visits = MaxVisits
    THEN [s |-> s, err |-> "Endless", ret |-> None, visited |-> visited]
    ELSE find_next(ensure_resolved(s, Head(handles)), id, handles,
                   Append(visited, Head(handles)), visits + 1)

find(s, handle, id) == find_walk(s, id, <<handle>>, <<>>, 0)

\* The visitor of Layout::render: the node is laid out and its object taken;
\* answers with the store, the error and the HrefObject.  The two expects
\* panic.
render_one(self, s, handle) ==
    LET taken(r) ==
            IF failed(r) THEN [s |-> r.s, err |-> r.err, item |-> None]
            ELSE IF next_href(r.s, handle) = None \/ node(r.s, handle).object = None
            THEN [s |-> [r.s EXCEPT !.panic = TRUE], err |-> "", item |-> None]
            ELSE [s |-> take(r.s, handle).s, err |-> "",
                  item |-> Some([href |-> next_href(r.s, handle)[1],
                                 object |-> node(r.s, handle).object[1]])]
    IN taken(layout_one(self, s, handle))

\* Stac::into_walk with the visitor of render, in the order of walk: answers
\* with the store, the first error and the HrefObjects yielded before it.
RECURSIVE into_walk(_, _, _, _)
into_walk_on(self, r, out, handles, visits) ==
    IF failed(r) THEN [s |-> r.s, err |-> r.err, out |-> out]
    ELSE into_walk(self, [s |-> r.s, err |-> "", out |-> Append(out, r.item[1])],
                   children(r.s, Head(handles)) \o Tail(handles), visits)

into_walk(self, r, handles, visits) ==
    IF failed(r) \/ handles = <<>> THEN r
    ELSE IF visits = MaxVisits THEN [s |-> r.s, err |-> "Endless", out |-> r.out]
    ELSE into_walk_on(self, render_one(self, r.s, Head(handles)), r.out, handles,
                      visits + 1)

\* Layout::render, collected until the first error.
render(self, s) ==
    into_walk(self, [s |-> s, err |-> "", out |-> <<>>], <<ROOT_HANDLE>>, 0)

(***************************************************************************)
(* The state machine: a store, and the operations of its public interface  *)
(* applied to handles that have not been removed.                          *)
(***************************************************************************)
VARIABLES
    nodes,        \* Stac::nodes
    free_nodes,   \* Stac::free_nodes
    hrefs,        \* Stac::hrefs
    reads,        \* the number of reads the reader served, per location
    panicked,     \* an operation panicked
    created,      \* the handle new_with_reader returned
    last,         \* the last operation, its arguments and what it returned
    hist,         \* which kinds of operations were applied so far
    nops          \* the number of operations applied so far

vars == <<nodes, free_nodes, hrefs, reads, panicked, created, last, hist, nops>>

Stac ==
    [nodes |-> nodes, free_nodes |-> free_nodes, hrefs |-> hrefs, reads |-> reads,
     panic |-> panicked]

Install(s) ==
    /\ Len(s.nodes) <= MaxNodes
    /\ nodes' = s.nodes
    /\ free_nodes' = s.free_nodes
    /\ hrefs' = s.hrefs
    /\ reads' = s.reads
    /\ panicked' = s.panic

Live == {h \in Handles(Stac) : ~contains(free_nodes, h)}

\* hist: "resolving" while only get, find and add_link were applied, "cache"
\* once take, take_href or set_href were applied too, "any" after any other.
ResolvingOp == "resolving"
CacheOp == "cache"
AnyOp == "any"
Later(h, kind) ==
    IF h = AnyOp \/ kind = AnyOp THEN AnyOp
    ELSE IF h = CacheOp \/ kind = CacheOp THEN CacheOp
    ELSE ResolvingOp

\* last: the operation, the handle it was applied to (or returned), its other
\* arguments, its error ("" when Ok), what it returned, the node of the handle
\* before the operation (None when the handle did not exist), and whether the
\* operation is a get of the handle that the operation before it, a get too,
\* resolved by a read (again), or an add at the href that the operation before
\* it, a remove, returned (readd), or a remove of the handle that the operation
\* before it, an add or add_child, returned (undo).
Pre(handle) == IF handle \in Handles(Stac) THEN Some(node(Stac, handle)) ELSE None

Op(name, kind, handle, arg, err, ret) ==
    /\ last' = [op |-> name, handle |-> handle, arg |-> arg, err |-> err,
                ret |-> ret, pre |-> Pre(handle),
                again |-> /\ name = "get"
                          /\ last.op = "get"
                          /\ last.handle = handle
                          /\ last.err = ""
                          /\ last.pre # None
                          /\ last.pre[1].object = None,
                readd |-> /\ name = "add"
                          /\ last.op = "remove"
                          /\ last.err = ""
                          /\ last.ret[2] # None
                          /\ arg[1][2] = last.ret[2],
                undo |-> /\ name = "remove"
                         /\ last.op \in {"add", "add_child"}
                         /\ last.handle = handle]
    /\ hist' = Later(hist, kind)
    /\ nops' = nops + 1
    /\ UNCHANGED created

\* No operation is applied to a store that render has consumed.
\* nor after a call that does not return.
Enabled == nops < MaxOps /\ ~panicked /\ last.op # "render" /\ last.err # "Endless"

InitFrom(inputs) ==
    \E input \in inputs :
        \E r \in {new_with_reader(input[1], input[2])} :
           /\ r.err = ""
           /\ nodes = r.s.nodes
           /\ free_nodes = r.s.free_nodes
           /\ hrefs = r.s.hrefs
           /\ reads = r.s.reads
           /\ panicked = r.s.panic
           /\ created = r.handle
           /\ last = [op |-> "new", handle |-> r.handle, arg |-> <<input>>,
                      err |-> "", ret |-> <<>>, pre |-> None, again |-> FALSE,
                      readd |-> FALSE, undo |-> FALSE]
           /\ hist = ResolvingOp
           /\ nops = 0

Init == InitFrom(NewInputs)

Get(handle) ==
    /\ Enabled
    /\ \E r \in {ensure_resolved(Stac, handle)} :
          /\ Install(r.s)
          /\ Op("get", ResolvingOp, handle, <<>>, r.err,
                IF r.err = "" /\ ~r.s.panic THEN node(r.s, handle).object ELSE None)

Add(input) ==
    /\ Enabled
    /\ \E r \in {add(Stac, input[1], input[2])} :
          /\ Install(r.s)
          /\ Op("add", AnyOp, r.handle, <<input>>, "", <<>>)

AddChild(p, input) ==
    /\ Enabled
    /\ \E r \in {add_child(Stac, p, input[1], input[2])} :
          /\ Install(r.s)
          /\ Op("add_child", AnyOp, r.handle, <<p, input>>, "", <<>>)

Connect(p, child) ==
    /\ Enabled
    /\ Install(connect(Stac, p, child))
    /\ Op("connect", AnyOp, child, <<p>>, "", <<>>)

Remove(handle) ==
    /\ Enabled
    /\ \E r \in {remove(Stac, handle)} :
          /\ Install(r.s)
          /\ Op("remove", AnyOp, handle, <<>>, r.err, r.ret)

SetHref(handle, href) ==
    /\ Enabled
    /\ Install(set_href(Stac, handle, href))
    /\ Op("set_href", CacheOp, handle, <<href>>, "", <<>>)

Take(handle) ==
    /\ Enabled
    /\ \E r \in {take(Stac, handle)} :
          /\ Install(r.s)
          /\ Op("take", CacheOp, handle, <<>>, "", r.ret)

TakeHref(handle) ==
    /\ Enabled
    /\ \E r \in {take_href(Stac, handle)} :
          /\ Install(r.s)
          /\ Op("take_href", CacheOp, handle, <<>>, "", r.ret)

AddLink(handle, link) ==
    /\ Enabled
    /\ \E r \in {add_link(Stac, handle, link)} :
          /\ Install(r.s)
          /\ Op("add_link", ResolvingOp, handle, <<link>>, r.err, <<>>)

\* Every operation of the public interface of the store.
Next ==
    \/ \E h \in Live : Get(h)
    \/ \E input \in AddInputs : Add(input)
    \/ \E p \in Live, input \in ChildInputs : AddChild(p, input)
    \/ \E p \in Live, c \in Live : Connect(p, c)
    \/ \E h \in Live : Remove(h)
    \/ \E h \in Live, href \in HrefInputs : SetHref(h, href)
    \/ \E h \in Live : Take(h)
    \/ \E h \in Live : TakeHref(h)
    \/ \E h \in Live, link \in LinkInputs : AddLink(h, link)

Spec == Init /\ [][Next]_vars

\* The operations that change the shape of the tree, and get.
NextTree ==
    \/ \E h \in Live : Get(h)
    \/ \E input \in AddInputs : Add(input)
    \/ \E p \in Live, input \in ChildInputs : AddChild(p, input)
    \/ \E p \in Live, c \in Live : Connect(p, c)
    \/ \E h \in Live : Remove(h)

InitTree == InitFrom(TreeInputs)

SpecTree == InitTree /\ [][NextTree]_vars

\* The operations that neither add nor remove a node.
NextCache ==
    \/ \E h \in Live : Get(h)
    \/ \E h \in Live, link \in LinkInputs : AddLink(h, link)
    \/ \E h \in Live : Take(h)
    \/ \E h \in Live : TakeHref(h)
    \/ \E h \in Live, href \in HrefInputs : SetHref(h, href)

SpecCache == Init /\ [][NextCache]_vars

\* A store read from the catalog with three children, and the operations that
\* change the shape of the tree; the catalog is added again at its location.
WideInputs == { <<WideDoc, Some(RootL)>> }
WideAddInputs == WideInputs \cup { <<SecondItem, Some(ChildL)>> }
WideChildInputs == { <<ThirdItem, None>> }

InitWide == InitFrom(WideInputs)

NextWide ==
    \/ \E h \in Live : Get(h)
    \/ \E input \in WideAddInputs : Add(input)
    \/ \E p \in Live, input \in WideChildInputs : AddChild(p, input)
    \/ \E p \in Live, c \in Live : Connect(p, c)
    \/ \E h \in Live : Remove(h)

SpecWide == InitWide /\ [][NextWide]_vars

\* A store read from the catalog or made from a catalog without links, laid
\* out below the directory out; nodes are resolved, added below a node and
\* removed before and between the layouts.
LayoutRoot == <<"out">>
Claimer == Object("Catalog", "claimer", << Link(ItemL, "item") >>)
PlainCollection == Object("Collection", "root-collection", <<>>)
ItemsDoc == Object("Collection", "a", << Link(Rel(0, <<"i.json">>), "item") >>)
LayoutInputs ==
    { <<PlainRoot, None>>, <<PlainCollection, None>>, <<RootDoc, Some(RootL)>>,
      <<ItemsDoc, Some(ChildL)>> }
LayoutChildInputs == { <<Lonely, None>>, <<Claimer, None>> }

Layout ==
    /\ Enabled
    /\ \E r \in {layout(Layout_new(LayoutRoot), Stac)} :
          /\ Install(r.s)
          /\ Op("layout", AnyOp, ROOT_HANDLE, <<>>, r.err, r.visited)

InitLayout == InitFrom(LayoutInputs)

NextLayout ==
    \/ \E h \in Live : Get(h)
    \/ \E p \in Live, input \in LayoutChildInputs : AddChild(p, input)
    \/ \E h \in Live : Remove(h)
    \/ Layout

SpecLayout == InitLayout /\ [][NextLayout]_vars

\* The same stores, with objects that have hrefs below the directory of the
\* root added below their nodes, laid out with Rebase below the directory out.
DeepL == P(<<"r", "a", "many", "sub", "catalog.json">>)
ClaimerL == P(<<"r", "a", "c", "catalog.json">>)
RelativeClaimer == Object("Catalog", "claimer", << Link(Rel(1, <<"i.json">>), "item") >>)
RebaseInputs == { <<RootDoc, Some(RootL)>>, <<ItemsDoc, Some(ChildL)>> }
RebaseChildInputs ==
    { <<Lonely, None>>, <<Lonely, Some(DeepL)>>, <<RelativeClaimer, Some(ClaimerL)>> }

LayoutRebase ==
    /\ Enabled
    /\ \E r \in {layout(with_next_href(Layout_new(LayoutRoot), "Rebase"), Stac)} :
          /\ Install(r.s)
          /\ Op("rebase", AnyOp, ROOT_HANDLE, <<>>, r.err, r.visited)

InitRebase == InitFrom(RebaseInputs)

NextRebase ==
    \/ \E h \in Live : Get(h)
    \/ \E p \in Live, input \in RebaseChildInputs : AddChild(p, input)
    \/ \E h \in Live : Remove(h)
    \/ LayoutRebase

SpecRebase == InitRebase /\ [][NextRebase]_vars

\* The stores of the layout, rendered below the directory out.
Render ==
    /\ Enabled
    /\ \E r \in {render(Layout_new(LayoutRoot), Stac)} :
          /\ Install(r.s)
          /\ Op("render", AnyOp, ROOT_HANDLE, <<>>, r.err, r.out)

NextRender ==
    \/ \E h \in Live : Get(h)
    \/ \E p \in Live, input \in LayoutChildInputs : AddChild(p, input)
    \/ \E h \in Live : Remove(h)
    \/ Render

SpecRender == InitLayout /\ [][NextRender]_vars

\* The ids find looks for: the id of the item, the id of a catalog added to
\* the store, and an id no object has, which makes find walk the whole subtree.
FindIds == {"i", "lonely", "nothing"}

Find(handle, id) ==
    /\ Enabled
    /\ \E r \in {find(Stac, handle, id)} :
          /\ Install(r.s)
          /\ Op("find", ResolvingOp, handle, <<id>>, r.err, <<r.ret, r.visited>>)

\* The children added before a find: a plain catalog, a catalog that claims
\* the item, and a catalog at the location the item's file names as its parent.
FindChildInputs ==
    { <<Lonely, None>>, <<Claimer, None>>, <<Located, Some(ChildL)>> }

InitFind == InitFrom(NewInputs)

NextFind ==
    \/ \E h \in Live : Get(h)
    \/ \E p \in Live, input \in FindChildInputs : AddChild(p, input)
    \/ \E p \in Live, c \in Live : Connect(p, c)
    \/ \E h \in Live : Remove(h)
    \/ \E h \in Live, id \in FindIds : Find(h, id)

SpecFind == InitFind /\ [][NextFind]_vars

\* The finds of the stores that get, add_child and remove build.
NextSearch ==
    \/ \E h \in Live : Get(h)
    \/ \E p \in Live, input \in FindChildInputs : AddChild(p, input)
    \/ \E h \in Live : Remove(h)
    \/ \E h \in Live, id \in FindIds : Find(h, id)

SpecSearch == InitFind /\ [][NextSearch]_vars

\* The operations that may meet a node that holds an object, on the stores of
\* InitTree, with one located collection to add and one plain child.
KeepAddInputs == { <<ChildDoc, Some(ChildL)>> }
KeepChildInputs == { <<Lonely, None>> }

NextKeep ==
    \/ \E h \in Live : Get(h)
    \/ \E input \in KeepAddInputs : Add(input)
    \/ \E p \in Live, input \in KeepChildInputs : AddChild(p, input)
    \/ \E p \in Live, c \in Live : Connect(p, c)
    \/ \E h \in Live : Remove(h)
    \/ \E h \in Live, href \in HrefInputs : SetHref(h, href)
    \/ \E h \in Live : Take(h)
    \/ \E h \in Live, link \in LinkInputs : AddLink(h, link)

SpecKeep == InitTree /\ [][NextKeep]_vars

\* The stores in which a slot is used again: a catalog that claims the item
\* is added and nodes are removed, and an item whose parent link names an
\* unknown location is added at the href of the child of the root.
ItemAddInputs == { <<SecondItem, Some(ChildL)>> }

NextItems ==
    \/ \E h \in Live : Get(h)
    \/ \E input \in ItemAddInputs : Add(input)
    \/ \E p \in Live, input \in LayoutChildInputs : AddChild(p, input)
    \/ \E h \in Live : Remove(h)

SpecItems == InitTree /\ [][NextItems]_vars

(***************************************************************************)
(* The claims.                                                             *)
(***************************************************************************)

\* C1: parent/child consistency.  In every state reached by add, add_child,
\* connect, remove and get on live handles, c is in children(p) if and only if
\* parent(c) = p, for all nodes p and c; connect never finds the child missing
\* from the child set of its old parent (it does not panic).
ParentChildConsistent ==
    /\ ~panicked
    /\ \A p \in Handles(Stac), c \in Handles(Stac) :
           contains(children(Stac, p), c) <=> (parent(Stac, c) = Some(p))

\* C1: connect has moved a child from one parent to another one.
ReparentedByConnect ==
    /\ last.op = "connect"
    /\ last.pre[1].parent # None
    /\ last.pre[1].parent # Some(last.arg[1])
    /\ parent(Stac, last.handle) = Some(last.arg[1])
    /\ ~contains(children(Stac, last.pre[1].parent[1]), last.handle)

\* C2: location uniqueness.  In every reachable state no two distinct live
\* nodes hold the same location.
LocationsUnique ==
    \A h1 \in Live, h2 \in Live :
        (h1 # h2 /\ href_of(Stac, h1) # None) => href_of(Stac, h1) # href_of(Stac, h2)

\* C3: lazy-cache contract.  Over the operations that neither add nor remove a
\* node (get, add_link, take, take_href, set_href) the reader is asked to read
\* each location at most once, the read of the construction included.
EachLocationReadAtMostOnce == \A L \in DOMAIN reads : reads[L] <= 1

\* C4: cache hit.  A get of a node that has no object and holds a readable
\* href reads that href once, reads nothing else and returns the file; a get
\* of the same handle right after it reads nothing and returns the object the
\* first get installed: one read in total.
CacheHit ==
    [][/\ (/\ last'.op = "get"
           /\ last'.pre[1].object = None
           /\ last'.pre[1].href # None
           /\ readable(last'.pre[1].href[1]))
          => /\ last'.err = ""
             /\ reads' = reader_read(Stac, last'.pre[1].href[1]).reads
             /\ last'.ret = Some(FileAt(last'.pre[1].href[1]))
       /\ last'.again
          => /\ reads' = reads
             /\ last'.err = ""
             /\ last'.ret = last.ret
             /\ last'.ret = nodes[last'.handle + 1].object]_vars

\* C4: the second of two consecutive gets of a node that the first one has
\* resolved by a read.
SecondGetOfResolved ==
    /\ last.again
    /\ last.ret # None
    /\ last.pre[1].object = last.ret
    /\ \E L \in DOMAIN reads : reads[L] = 1 /\ last.ret = Some(FileAt(L))

\* C5: laziness.  add and add_child read nothing; get(handle) reads at most
\* the href that the node of the handle held; and every node that add,
\* add_child or get has created for the target of a link has no object.
Laziness ==
    [][/\ last'.op \in {"add", "add_child"} => reads' = reads
       /\ last'.op = "get"
          => \A L \in DOMAIN reads' :
                 (L \notin DOMAIN reads \/ reads'[L] # reads[L])
                 => last'.pre[1].href = Some(L)
       /\ last'.op \in {"add", "add_child", "get"}
          => \A h \in Live' \ Live :
                 h # last'.handle => nodes'[h + 1].object = None]_vars

\* C5: get has resolved the collection: the item its item link names is a
\* child of the collection, has no object, and its href was never read.
ItemDiscoveredNotRead ==
    /\ last.op = "get"
    /\ last.err = ""
    /\ last.pre[1].object = None
    /\ last.ret = Some(ChildDoc)
    /\ ItemL \in DOMAIN hrefs
    /\ parent(Stac, hrefs[ItemL]) = Some(last.handle)
    /\ node(Stac, hrefs[ItemL]).object = None
    /\ ItemL \notin DOMAIN reads

\* C6: remove(root) fails with CannotRemoveRoot and leaves the nodes (their
\* parents and children included), the index and the free list unchanged.
RemoveRootFails ==
    [][(last'.op = "remove" /\ last'.handle = ROOT_HANDLE)
       => /\ last'.err = "CannotRemoveRoot"
          /\ UNCHANGED <<nodes, free_nodes, hrefs>>]_vars

\* C6: remove was applied to a root that has children and an href.
RootRemovalRefused ==
    /\ last.op = "remove"
    /\ last.handle = ROOT_HANDLE
    /\ last.err = "CannotRemoveRoot"
    /\ children(Stac, ROOT_HANDLE) # <<>>
    /\ href_of(Stac, ROOT_HANDLE) # None

\* C7: remove(h) of a non-root h orphans.  Every former child of h has no
\* parent and keeps its object, href and children; h is not in the children
\* of its former parent; the href of h is not in the index; and the pair
\* returned is the object and the href that h held.
RemoveOrphans ==
    [][(last'.op = "remove" /\ last'.handle # ROOT_HANDLE)
       => /\ last'.err = ""
          /\ \A i \in DOMAIN last'.pre[1].children :
                 /\ nodes'[last'.pre[1].children[i] + 1].parent = None
                 /\ nodes'[last'.pre[1].children[i] + 1].object
                        = nodes[last'.pre[1].children[i] + 1].object
                 /\ nodes'[last'.pre[1].children[i] + 1].href
                        = nodes[last'.pre[1].children[i] + 1].href
                 /\ nodes'[last'.pre[1].children[i] + 1].children
                        = nodes[last'.pre[1].children[i] + 1].children
          /\ last'.pre[1].parent # None
             => ~contains(nodes'[last'.pre[1].parent[1] + 1].children, last'.handle)
          /\ last'.pre[1].href # None => last'.pre[1].href[1] \notin DOMAIN hrefs'
          /\ last'.ret = <<last'.pre[1].object, last'.pre[1].href>>]_vars

\* C8: a remove of a non-root node that held an href, then an add of an object
\* at that href, yields a handle with no parent and no children.
ReaddedIsAlone ==
    [][last'.readd
       => /\ nodes'[last'.handle + 1].parent = None
          /\ nodes'[last'.handle + 1].children = <<>>]_vars

\* C8, for the objects that have no parent, child or item link: a remove of a
\* non-root node that held an href, then an add of such an object at that
\* href, yields a handle with no parent and no children.
ReaddedWithoutLinksIsAlone ==
    [][(/\ last'.readd
        /\ \A i \in DOMAIN last'.arg[1][1].links :
               /\ ~is_parent(last'.arg[1][1].links[i])
               /\ ~is_child(last'.arg[1][1].links[i])
               /\ ~is_item(last'.arg[1][1].links[i]))
       => /\ nodes'[last'.handle + 1].parent = None
          /\ nodes'[last'.handle + 1].children = <<>>]_vars

\* C8: a node that had a parent was removed, and the located catalog was
\* added at the href it held, in the slot it left.
ReaddedLocated ==
    /\ last.readd
    /\ last.arg[1] = <<Located, Some(ChildL)>>
    /\ last.pre # None
    /\ last.pre[1].object = None
    /\ node(Stac, last.handle).object = Some(Located)
    /\ parent(Stac, last.handle) = None
    /\ children(Stac, ROOT_HANDLE) = <<>>

\* C9: the root handle has no parent in every reachable state.
RootHasNoParent == parent(Stac, ROOT_HANDLE) = None

\* C10: the structure is a tree: no node is its own ancestor, that is, every
\* non-empty set of nodes has a node whose parent is outside of the set.
IsTree ==
    \A C \in SUBSET Handles(Stac) :
        C # {} => \E h \in C : parent(Stac, h) = None \/ parent(Stac, h)[1] \notin C

\* C11: children are kept in insertion order.  A connect or a remove that
\* detaches a child from a node leaves the other children of every node in
\* the order they had, and connect places the child last.
ChildrenOrderKept ==
    [][last'.op \in {"connect", "remove"}
       => /\ \A p \in Handles(Stac) :
                 \A i \in DOMAIN nodes[p + 1].children :
                     \A j \in DOMAIN nodes[p + 1].children :
                         (/\ i < j
                          /\ nodes[p + 1].children[i] # last'.handle
                          /\ nodes[p + 1].children[j] # last'.handle
                          /\ contains(nodes'[p + 1].children, nodes[p + 1].children[i])
                          /\ contains(nodes'[p + 1].children, nodes[p + 1].children[j]))
                         => index_of(nodes'[p + 1].children, nodes[p + 1].children[i])
                                < index_of(nodes'[p + 1].children, nodes[p + 1].children[j])
          /\ (last'.op = "connect" /\ ~panicked')
             => nodes'[last'.arg[1] + 1].children[Len(nodes'[last'.arg[1] + 1].children)]
                    = last'.handle]_vars

\* C12: idempotent re-add.  An add of (object, href) with the href in the
\* index returns the handle the index has for the href, a node that exists;
\* and an add right after an add of the same (object, href) leaves the nodes
\* (parents, ordered children, hrefs, objects), the index and the free list
\* as the first add left them.
ReaddIdempotent ==
    [][(last'.op = "add" /\ last'.arg[1][2] # None)
       => /\ last'.arg[1][2][1] \in DOMAIN hrefs
             => /\ last'.handle = hrefs[last'.arg[1][2][1]]
                /\ last'.pre # None
                /\ Len(nodes') >= Len(nodes)
          /\ (last.op = "add" /\ last.arg = last'.arg)
             => /\ last'.handle = last.handle
                /\ nodes' = nodes
                /\ hrefs' = hrefs
                /\ free_nodes' = free_nodes]_vars

\* The href a link of an object names, the object being at the optional href.
link_target(href, link) == IF href # None THEN join(href[1], link.href) ELSE link.href

\* C13: after add_child(p, object) has returned h, parent(h) = p and h is in
\* children(p), and the node that a parent link of the object names does not
\* have h among its children.
AddChildOverridesParentLink ==
    [][last'.op = "add_child"
       => /\ ~panicked'
          /\ nodes'[last'.handle + 1].parent = Some(last'.arg[1])
          /\ contains(nodes'[last'.arg[1] + 1].children, last'.handle)
          /\ \A i \in DOMAIN last'.arg[2][1].links :
                 (/\ is_parent(last'.arg[2][1].links[i])
                  /\ link_target(last'.arg[2][2], last'.arg[2][1].links[i]) \in DOMAIN hrefs')
                 => ~contains(nodes'[hrefs'[link_target(last'.arg[2][2],
                                                        last'.arg[2][1].links[i])] + 1].children,
                              last'.handle)]_vars

\* C13, the node a parent link names being another node than p: after
\* add_child(p, object) has returned h, parent(h) = p and h is in children(p),
\* and a node other than p that a parent link of the object names does not
\* have h among its children.
AddChildOverridesOtherParentLink ==
    [][last'.op = "add_child"
       => /\ ~panicked'
          /\ nodes'[last'.handle + 1].parent = Some(last'.arg[1])
          /\ contains(nodes'[last'.arg[1] + 1].children, last'.handle)
          /\ \A i \in DOMAIN last'.arg[2][1].links :
                 (/\ is_parent(last'.arg[2][1].links[i])
                  /\ link_target(last'.arg[2][2], last'.arg[2][1].links[i]) \in DOMAIN hrefs'
                  /\ hrefs'[link_target(last'.arg[2][2], last'.arg[2][1].links[i])]
                         # last'.arg[1])
                 => ~contains(nodes'[hrefs'[link_target(last'.arg[2][2],
                                                        last'.arg[2][1].links[i])] + 1].children,
                              last'.handle)]_vars

\* C13: the item whose parent link names the root was added as a child of
\* another node: it is below that node and the root does not list it.
AddedBelowOtherThanLinked ==
    /\ last.op = "add_child"
    /\ last.arg = <<1, <<ThirdItem, None>>>>
    /\ node(Stac, last.handle).object = Some(ThirdItem)
    /\ parent(Stac, last.handle) = Some(1)
    /\ contains(children(Stac, 1), last.handle)
    /\ RootL \in DOMAIN hrefs
    /\ hrefs[RootL] = ROOT_HANDLE
    /\ ~contains(children(Stac, ROOT_HANDLE), last.handle)

\* Whether the operation l is an add of an object with an href, or a get that
\* has read the object of its node; then the object, and its href.
is_scan(l) ==
    \/ l.op = "add" /\ l.arg[1][2] # None
    \/ l.op = "get" /\ l.err = "" /\ l.pre[1].object = None
scanned_object(l) == IF l.op = "add" THEN l.arg[1][1] ELSE l.ret[1]
scanned_href(l) == IF l.op = "add" THEN l.arg[1][2] ELSE l.pre[1].href

\* C14: link scan attachment.  When an object at href L is added or resolved
\* at handle h, the node the index has at the joined href of each child or
\* item link is a child of h, h is a child of the node the index has at the
\* joined href of each parent link, and an add at an href that a child link
\* of the object of an existing node names returns a handle whose parent is
\* that node.
ScanAttaches ==
    [][is_scan(last')
       => /\ ~panicked'
          /\ \A i \in DOMAIN scanned_object(last').links :
                 LET link == scanned_object(last').links[i]
                     T == link_target(scanned_href(last'), link)
                 IN /\ (is_child(link) \/ is_item(link))
                       => /\ T \in DOMAIN hrefs'
                          /\ nodes'[hrefs'[T] + 1].parent = Some(last'.handle)
                          /\ contains(nodes'[last'.handle + 1].children, hrefs'[T])
                    /\ is_parent(link)
                       => /\ T \in DOMAIN hrefs'
                          /\ nodes'[last'.handle + 1].parent = Some(hrefs'[T])
                          /\ contains(nodes'[hrefs'[T] + 1].children, last'.handle)
          /\ last'.op = "add"
             => \A q \in Live :
                    (/\ nodes[q + 1].object # None
                     /\ \E i \in DOMAIN nodes[q + 1].object[1].links :
                            /\ is_child(nodes[q + 1].object[1].links[i])
                            /\ link_target(nodes[q + 1].href,
                                           nodes[q + 1].object[1].links[i])
                                   = last'.arg[1][2][1])
                    => nodes'[last'.handle + 1].parent = Some(q)]_vars

\* C14, for an object none of whose structural links names its own href or
\* an href the index then has for the node of the object itself: the node the
\* index has at the joined href of each child or item link is a child of h,
\* h is a child of the node the index has at the joined href of its last
\* parent link, and an add of an object without a parent link at an href the
\* index has for a node returns the handle of that node, with the parent the
\* node had.
ScanAttachesLinked ==
    [][(/\ is_scan(last')
        /\ \A i \in DOMAIN scanned_object(last').links :
               LET T == link_target(scanned_href(last'), scanned_object(last').links[i])
               IN is_structural(scanned_object(last').links[i])
                  => /\ Some(T) # scanned_href(last')
                     /\ T \in DOMAIN hrefs' => hrefs'[T] # last'.handle)
       => /\ ~panicked'
          /\ \A i \in DOMAIN scanned_object(last').links :
                 LET link == scanned_object(last').links[i]
                     T == link_target(scanned_href(last'), link)
                 IN /\ (is_child(link) \/ is_item(link))
                       => /\ T \in DOMAIN hrefs'
                          /\ nodes'[hrefs'[T] + 1].parent = Some(last'.handle)
                          /\ contains(nodes'[last'.handle + 1].children, hrefs'[T])
                    /\ (/\ is_parent(link)
                        /\ \A j \in DOMAIN scanned_object(last').links :
                               j > i => ~is_parent(scanned_object(last').links[j]))
                       => /\ T \in DOMAIN hrefs'
                          /\ nodes'[last'.handle + 1].parent = Some(hrefs'[T])
                          /\ contains(nodes'[hrefs'[T] + 1].children, last'.handle)
          /\ (/\ last'.op = "add"
              /\ last'.arg[1][2][1] \in DOMAIN hrefs
              /\ \A i \in DOMAIN last'.arg[1][1].links :
                     ~is_parent(last'.arg[1][1].links[i]))
             => /\ last'.handle = hrefs[last'.arg[1][2][1]]
                /\ nodes'[last'.handle + 1].parent = nodes[last'.handle + 1].parent]_vars

\* C14: get has read the collection at the href the child link of the root
\* named: the node of its item link is its child, and it is a child of the
\* node of its parent link, the root.
CollectionScanned ==
    /\ last.op = "get"
    /\ last.err = ""
    /\ last.pre[1].object = None
    /\ last.pre[1].href = Some(ChildL)
    /\ node(Stac, last.handle).object = Some(ChildDoc)
    /\ contains(children(Stac, last.handle), hrefs[ItemL])
    /\ node(Stac, hrefs[ItemL]).is_from_item_link
    /\ hrefs[RootL] = ROOT_HANDLE
    /\ parent(Stac, last.handle) = Some(ROOT_HANDLE)
    /\ contains(children(Stac, ROOT_HANDLE), last.handle)

\* The object an add or add_child was given.
added_object(l) == IF l.op = "add" THEN l.arg[1][1] ELSE l.arg[2][1]

\* C15: add/remove round trip.  A remove of the handle that the add or
\* add_child right before it returned returns the object that was added; an
\* add or add_child stores the object it was given, a get that reads stores
\* the object read, a remove returns the object the node had, and none of
\* them, nor connect, changes the object of another node.
RoundTrip ==
    [][/\ last'.undo
          => /\ last'.err = ""
             /\ last'.ret[1] = Some(added_object(last))
       /\ last'.op \in {"add", "add_child"}
          => nodes'[last'.handle + 1].object = Some(added_object(last'))
       /\ (last'.op = "get" /\ last'.err = "" /\ last'.pre[1].object = None)
          => nodes'[last'.handle + 1].object = Some(FileAt(last'.pre[1].href[1]))
       /\ (last'.op = "remove" /\ last'.err = "")
          => last'.ret[1] = last'.pre[1].object
       /\ last'.op \in {"add", "add_child", "get", "remove", "connect"}
          => \A h \in Handles(Stac) :
                 h # last'.handle => nodes'[h + 1].object = nodes[h + 1].object]_vars

\* C15, the returned handle not being the root: the same with
\* a remove of the returned handle that is not the root handle.
RoundTripBelowRoot ==
    [][/\ (last'.undo /\ last'.handle # ROOT_HANDLE)
          => /\ last'.err = ""
             /\ last'.ret[1] = Some(added_object(last))
       /\ last'.op \in {"add", "add_child"}
          => nodes'[last'.handle + 1].object = Some(added_object(last'))
       /\ (last'.op = "get" /\ last'.err = "" /\ last'.pre[1].object = None)
          => nodes'[last'.handle + 1].object = Some(FileAt(last'.pre[1].href[1]))
       /\ (last'.op = "remove" /\ last'.err = "")
          => last'.ret[1] = last'.pre[1].object
       /\ last'.op \in {"add", "add_child", "get", "remove", "connect"}
          => \A h \in Handles(Stac) :
                 h # last'.handle => nodes'[h + 1].object = nodes[h + 1].object]_vars

\* C15: the item with a parent link was added at the href of a child of the
\* root and removed right after: the remove has returned the item, its parent
\* link included, and the href.
ItemReturned ==
    /\ last.undo
    /\ last.err = ""
    /\ last.ret = <<Some(SecondItem), Some(ChildL)>>
    /\ \E i \in DOMAIN last.ret[1][1].links : is_parent(last.ret[1][1].links[i])
    /\ last.pre[1].parent # None

\* C16: get fails with UnresolvableNode exactly when the node had neither an
\* object nor an href; when the node had an object, get returns that object
\* and the reader is not called.
GetUnresolvable ==
    [][last'.op = "get"
       => /\ last'.err = "UnresolvableNode"
             <=> (last'.pre[1].object = None /\ last'.pre[1].href = None)
          /\ last'.pre[1].object # None
             => /\ last'.err = ""
                /\ last'.ret = last'.pre[1].object
                /\ reads' = reads]_vars

\* C16: a get of a node whose object and href were both taken has failed with
\* UnresolvableNode, and a get before it has read a file.
UnresolvableGot ==
    /\ last.op = "get"
    /\ last.err = "UnresolvableNode"
    /\ last.pre[1].object = None
    /\ last.pre[1].href = None
    /\ reads # <<>>

\* The location the root link of the object resolves to (None without one).
root_href_of(object, href) ==
    IF root_link(object) = None THEN None
    ELSE Some(link_target(href, root_link(object)[1]))

without_root_links(object) ==
    [object EXCEPT !.links = SelectSeq(@, LAMBDA l : ~is_root(l))]

\* The nodes of a store without their objects, its index and its free list.
shape(ns, hs, fs) ==
    [nodes |-> [i \in DOMAIN ns |->
                   [parent |-> ns[i].parent, children |-> ns[i].children,
                    href |-> ns[i].href,
                    is_from_item_link |-> ns[i].is_from_item_link]],
     hrefs |-> hs, free_nodes |-> fs]

shape_of(s) == shape(s.nodes, s.hrefs, s.free_nodes)

\* The store after the read of the href of the node has answered with the
\* file without its root links.
resolved_without_root_links(s, handle) ==
    set_object(reader_read([s EXCEPT !.nodes[handle + 1].href = None],
                           node(s, handle).href[1]),
               handle, without_root_links(FileAt(node(s, handle).href[1])),
               node(s, handle).href)

\* C18: a root link of an added or resolved object is ignored.  After add,
\* add_child, or a get that read a file, the nodes, their parents and
\* children, their hrefs, the index and the free list are what they are after
\* the same operation with the object without its root links.
RootLinkIgnored ==
    [][/\ last'.op = "add"
          => shape(nodes', hrefs', free_nodes') =
                 shape_of(add(Stac, without_root_links(last'.arg[1][1]),
                              last'.arg[1][2]).s)
       /\ last'.op = "add_child"
          => shape(nodes', hrefs', free_nodes') =
                 shape_of(add_child(Stac, last'.arg[1],
                                    without_root_links(last'.arg[2][1]),
                                    last'.arg[2][2]).s)
       /\ (last'.op = "get" /\ last'.err = "" /\ last'.pre[1].object = None)
          => shape(nodes', hrefs', free_nodes') =
                 shape_of(resolved_without_root_links(Stac, last'.handle))]_vars

\* The handles that are reached from the root by going from a node to its
\* children.
RECURSIVE reach(_, _)
reach(found, n) ==
    IF n = 0 THEN found
    ELSE reach(found \cup {c \in Handles(Stac) :
                              \E h \in found : contains(children(Stac, h), c)}, n - 1)

Reachable == reach({ROOT_HANDLE}, Len(nodes))

\* The number of links of the node that have the relation rel.
count_links(handle, rel) ==
    IF nodes[handle + 1].object = None THEN 0
    ELSE Cardinality({i \in DOMAIN nodes[handle + 1].object[1].links :
                         nodes[handle + 1].object[1].links[i].rel = rel})

LaidOut == last.op = "layout" /\ last.err = "" /\ ~panicked

\* C19: after a layout that succeeded, every node reachable from the root has
\* exactly one root link, the root has no parent link, and every other
\* reachable node has exactly one parent link.
LaidOutRootAndParentLinks ==
    LaidOut
    => \A h \in Reachable :
           /\ count_links(h, "root") = 1
           /\ count_links(h, "parent") = (IF h = ROOT_HANDLE THEN 0 ELSE 1)

\* The child links of the node that lead to the href layout gave the child.
links_to(handle, child) ==
    IF nodes[handle + 1].object = None \/ nodes[handle + 1].next_href = None
    THEN {}
    ELSE {i \in DOMAIN nodes[handle + 1].object[1].links :
             /\ is_child(nodes[handle + 1].object[1].links[i])
             /\ Some(join(nodes[handle + 1].next_href[1],
                          nodes[handle + 1].object[1].links[i].href))
                    = nodes[child + 1].next_href}

\* The children of the node that layout gave the href it gave child.
children_at(handle, child) ==
    {c \in Handles(Stac) : /\ contains(children(Stac, handle), c)
                           /\ nodes[c + 1].next_href = nodes[child + 1].next_href}

\* C20: after a layout that succeeded, the child links of every node reachable
\* from the root correspond one to one to its children: the node has as many
\* child links that lead to the href of a child as it has children with that
\* href, and every child link it has leads to one of its children.
LaidOutChildLinks ==
    LaidOut
    => \A h \in Reachable :
           /\ \A c \in Handles(Stac) :
                  contains(children(Stac, h), c)
                  => Cardinality(links_to(h, c)) = Cardinality(children_at(h, c))
           /\ count_links(h, "child") =
                  Cardinality(UNION {links_to(h, c) : c \in {x \in Handles(Stac) :
                                                         contains(children(Stac, h), x)}})

\* The links of the node, and the href a link of the node leads to from the
\* href layout gave the node.
links_of(handle) ==
    IF nodes[handle + 1].object = None THEN <<>>
    ELSE nodes[handle + 1].object[1].links

leads_to(handle, link) ==
    IF nodes[handle + 1].next_href = None THEN None
    ELSE Some(join(nodes[handle + 1].next_href[1], link.href))

LaidOutBestPractices ==
    LaidOut
    => /\ nodes[ROOT_HANDLE + 1].object # None
       /\ nodes[ROOT_HANDLE + 1].next_href =
              Some(P(LayoutRoot \o
                     << IF nodes[ROOT_HANDLE + 1].object[1].type = "Catalog"
                        THEN "catalog.json" ELSE "collection.json" >>))
       /\ \A n \in Reachable \ {ROOT_HANDLE} :
              /\ nodes[n + 1].object # None
              /\ nodes[n + 1].parent # None
              /\ nodes[nodes[n + 1].parent[1] + 1].next_href # None
              /\ nodes[n + 1].next_href =
                     Some(P(directory(nodes[nodes[n + 1].parent[1] + 1].next_href[1])
                            \o << nodes[n + 1].object[1].id >>
                            \o << CASE nodes[n + 1].object[1].type = "Catalog"
                                         -> "catalog.json"
                                    [] nodes[n + 1].object[1].type = "Collection"
                                         -> "collection.json"
                                    [] OTHER -> nodes[n + 1].object[1].id \o ".json" >>))

\* Every node reachable from the root has an object or an href that the
\* reader can read.
AllResolvable ==
    \A h \in Reachable :
        \/ nodes[h + 1].object # None
        \/ nodes[h + 1].href # None /\ readable(nodes[h + 1].href[1])

\* C23: top-down ordering.  A layout of a store whose reachable nodes are all
\* resolvable does not fail with MissingHref.
NoMissingHref ==
    [][(last'.op = "layout" /\ AllResolvable) => last'.err # "MissingHref"]_vars

\* The nodes with the structural links taken from every object they hold.
RECURSIVE stripped_nodes(_, _)
stripped_nodes(ns, i) ==
    IF i > Len(ns) THEN <<>>
    ELSE << IF ns[i].object = None THEN ns[i]
            ELSE [ns[i] EXCEPT !.object =
                     Some([@[1] EXCEPT !.links =
                              SelectSeq(@, LAMBDA l : ~is_structural(l))])] >>
         \o stripped_nodes(ns, i + 1)

\* The store with the structural links taken from every object it holds.
without_structural_links(s) == [s EXCEPT !.nodes = stripped_nodes(s.nodes, 1)]

\* The handles that are reached from the root in the nodes ns.
RECURSIVE reach_in(_, _, _)
reach_in(ns, found, n) ==
    IF n = 0 THEN found
    ELSE reach_in(ns, found \cup {c \in 0..(Len(ns) - 1) :
                                    \E h \in found : contains(ns[h + 1].children, c)},
                  n - 1)

\* C24: layout strips stale structure.  After a layout that succeeded, the
\* links of every node reachable from the root are the links the node has
\* after the layout of the same store with no structural link on any object:
\* no structural link that a node had before the layout is left.
StaleLinksStripped ==
    [][(last'.op = "layout" /\ last'.err = "" /\ ~panicked')
       => \A n \in reach_in(nodes', {ROOT_HANDLE}, Len(nodes')) :
              nodes'[n + 1].object =
                  layout(Layout_new(LayoutRoot), without_structural_links(Stac)).s.nodes[n + 1].object]_vars

Rebased == last.op = "rebase" /\ last.err = "" /\ ~panicked

\* C25: the hrefs of Rebase.  After a layout with Rebase that succeeded, the
\* next_href of the root is the directory of the layout with the file name of
\* the href of the root, and the next_href of every other reachable node is
\* the directory of the layout with what the href of the node has after the
\* directory of the href of the root.
RebasedHrefs ==
    Rebased
    => /\ nodes[ROOT_HANDLE + 1].href # None
       /\ nodes[ROOT_HANDLE + 1].next_href =
              Some(P(LayoutRoot \o
                     << nodes[ROOT_HANDLE + 1].href[1].segs[
                            Len(nodes[ROOT_HANDLE + 1].href[1].segs)] >>))
       /\ \A n \in Reachable \ {ROOT_HANDLE} :
              /\ nodes[n + 1].href # None
              /\ Len(nodes[n + 1].href[1].segs) >= Len(nodes[ROOT_HANDLE + 1].href[1].segs)
              /\ nodes[n + 1].next_href =
                     Some(P(LayoutRoot \o
                            SubSeq(nodes[n + 1].href[1].segs,
                                   Len(nodes[ROOT_HANDLE + 1].href[1].segs),
                                   Len(nodes[n + 1].href[1].segs))))

\* C26: render of a store whose reachable nodes are all resolvable yields no
\* error and one HrefObject for each node reachable from the root, each with
\* the next_href of a reachable node, which has at least one segment.
RenderYieldsAll ==
    [][(last'.op = "render" /\ AllResolvable)
       => /\ last'.err = ""
          /\ ~panicked'
          /\ Len(last'.ret) = Cardinality(reach_in(nodes', {ROOT_HANDLE}, Len(nodes')))
          /\ \A i \in DOMAIN last'.ret :
                 /\ last'.ret[i].href.segs # <<>>
                 /\ \E n \in reach_in(nodes', {ROOT_HANDLE}, Len(nodes')) :
                        nodes'[n + 1].next_href = Some(last'.ret[i].href)]_vars

\* A find that walked the whole subtree: nothing matched and nothing failed.
Walked == last.op = "find" /\ last.err = "" /\ last.ret[1] = None /\ ~panicked

\* The nodes of the subtree of a handle, as the walk left the store.
Subtree(handle) == reach_in(nodes, {handle}, Len(nodes))

\* How often the walk visited a handle.
visits_of(handle) ==
    Cardinality({i \in DOMAIN last.ret[2] : last.ret[2][i] = handle})

\* C27: a walk that resolves each node visits every node of the subtree of
\* its start exactly once and after its parent, the children found by a
\* resolution during the walk included.
WalkVisitsOnce ==
    Walked =>
        /\ \A n \in Subtree(last.handle) : visits_of(n) = 1
        /\ \A i \in DOMAIN last.ret[2] :
               \/ i = 1 /\ last.ret[2][i] = last.handle
               \/ \E j \in 1..(i - 1) :
                      nodes[last.ret[2][i] + 1].parent = Some(last.ret[2][j])
                      \/ last.ret[2][i] \notin Subtree(last.handle)

\* C28: a walk from a live handle of a store the operations have built yields
\* a finite sequence, so that find returns: no find goes on past MaxVisits
\* visits.
WalkTerminates == last.op = "find" => last.err # "Endless"

\* Whether a node holds an object with the id the find looked for.
matches(handle) ==
    /\ nodes[handle + 1].object # None
    /\ nodes[handle + 1].object[1].id = last.arg[1]

\* C29 (1): a find that returns answers with the first node it visited whose
\* object has the id, with None when no node of the subtree has it, and with
\* the first error when a resolution fails before a match.
FindFirstMatch ==
    (last.op = "find" /\ last.err # "Endless" /\ ~panicked) =>
        /\ \A i \in 1..(Len(last.ret[2]) - 1) : ~matches(last.ret[2][i])
        /\ last.ret[1] # None =>
               /\ last.err = ""
               /\ last.ret[1][1] = last.ret[2][Len(last.ret[2])]
               /\ matches(last.ret[1][1])
        /\ (last.ret[1] = None /\ last.err = "") =>
               \A n \in Subtree(last.handle) : ~matches(n)
        /\ last.err # "" =>
               /\ last.ret[1] = None
               /\ nodes[last.ret[2][Len(last.ret[2])] + 1].object = None

\* The number of reads the reader has served.
RECURSIVE sum_reads(_, _)
sum_reads(rd, Ls) ==
    IF Ls = {} THEN 0
    ELSE LET L == CHOOSE x \in Ls : TRUE
         IN rd[L] + sum_reads(rd, Ls \ {L})

\* C29 (2): find resolves and reads nothing past the first match or error:
\* every node it resolved is one it visited, and it read at most once for
\* each node it visited that held no object before.
FindReadsNoFurther ==
    [][(last'.op = "find" /\ last'.err # "Endless" /\ ~panicked') =>
          /\ \A n \in DOMAIN nodes' :
                 (nodes'[n].object # None
                  /\ (n \in DOMAIN nodes => nodes[n].object = None))
                 => \E i \in DOMAIN last'.ret[2] : last'.ret[2][i] = n - 1
          /\ sum_reads(reads', DOMAIN reads') - sum_reads(reads, DOMAIN reads)
                 <= Cardinality({n \in DOMAIN nodes' :
                        /\ \E i \in DOMAIN last'.ret[2] : last'.ret[2][i] = n - 1
                        /\ n \in DOMAIN nodes => nodes[n].object = None})]_vars

\* C29: a find that returns answers with the first node in the order of its
\* visits whose resolved object satisfies the filter, with None when no node
\* of the subtree does, or with the first resolution error that comes before
\* a match; and it resolves and reads no node past that match or error.
FindShortCircuits == []FindFirstMatch /\ FindReadsNoFurther

\* A find returned a node it reached after its start, and left a readable node
\* of the subtree unresolved.
FoundBeforeTheEnd ==
    /\ last.op = "find" /\ last.err = "" /\ ~panicked
    /\ last.ret[1] # None
    /\ Len(last.ret[2]) >= 2
    /\ \E n \in Subtree(last.handle) :
           /\ nodes[n + 1].object = None
           /\ nodes[n + 1].href # None
           /\ readable(nodes[n + 1].href[1])

\* The number of links with a rel that the object of a node of a store holds.
links_in(ns, handle, rel) ==
    IF ns[handle + 1].object = None THEN 0
    ELSE Cardinality({i \in DOMAIN ns[handle + 1].object[1].links :
                         ns[handle + 1].object[1].links[i].rel = rel})

\* The store as the walk of a layout leaves it after its first visits.
walked(s, visits) ==
    walk(Layout_new(LayoutRoot), [s |-> s, err |-> "", visited |-> <<>>],
         <<ROOT_HANDLE>>, MaxVisits - visits).s

\* C30: when layout returns an error raised in the visit of a node, no node
\* that was not visited has been given a root or a parent link, and every
\* node visited before holds the next_href and the object that its visit and
\* the visits up to the failing one gave it: nothing is rolled back.
FailFastNoRollback ==
    [][(last'.op = "layout" /\ last'.err \notin {"", "Endless"} /\ ~panicked') =>
          /\ Len(last'.ret) >= 1
          /\ \A n \in DOMAIN nodes' :
                 (\A i \in DOMAIN last'.ret : last'.ret[i] # n - 1) =>
                     \/ /\ n \in DOMAIN nodes
                        /\ nodes'[n].object = nodes[n].object
                     \/ /\ links_in(nodes', n - 1, "root") = 0
                        /\ links_in(nodes', n - 1, "parent") = 0
          /\ \A before \in {walked(Stac, Len(last'.ret) - 1)} :
                 \A i \in 1..(Len(last'.ret) - 1) :
                     /\ nodes'[last'.ret[i] + 1].next_href # None
                     /\ nodes'[last'.ret[i] + 1].next_href
                            = before.nodes[last'.ret[i] + 1].next_href
                     /\ nodes'[last'.ret[i] + 1].object
                            = before.nodes[last'.ret[i] + 1].object]_vars

\* A layout failed in the visit of a node below the root, after it had given
\* the root its next_href and its root link.
FailedBelowRoot ==
    /\ last.op = "layout" /\ last.err \notin {"", "Endless"} /\ ~panicked
    /\ Len(last.ret) >= 2
    /\ nodes[ROOT_HANDLE + 1].next_href # None
    /\ links_in(nodes, ROOT_HANDLE, "root") = 1

\* C31: resolution is monotonic.  The object of a node goes from present to
\* absent only in a remove or a take of that node: no other operation clears
\* an object that is set.
ObjectsKept ==
    [][\A n \in DOMAIN nodes :
           (nodes[n].object # None /\ nodes'[n].object = None)
           => /\ last'.op \in {"remove", "take"}
              /\ last'.handle = n - 1
              /\ last'.err = ""]_vars

\* An operation other than remove and take was applied to a node that held
\* an object and an href, and the node has another href now.
ObjectKeptAtNewHref ==
    /\ last.op = "set_href" /\ ~panicked
    /\ last.pre # None
    /\ last.pre[1].object # None
    /\ last.pre[1].href # None
    /\ nodes[last.handle + 1].href # last.pre[1].href
    /\ nodes[last.handle + 1].object = last.pre[1].object

\* The next_href and the object that a layout has left on the nodes it
\* visited, in the order of the visits.
RECURSIVE laid_out(_, _, _)
laid_out(ns, visited, i) ==
    IF i > Len(visited) THEN <<>>
    ELSE <<[href |-> ns[visited[i] + 1].next_href[1],
            object |-> ns[visited[i] + 1].object[1]]>>
         \o laid_out(ns, visited, i + 1)

\* C32: render and layout agree.  When layout succeeds on a store, render of
\* that store yields no error, and its HrefObjects are, node by node in the
\* order of the walk, the next_href and the object that layout leaves on the
\* node.
RenderAgreesWithLayout ==
    [][last'.op = "render" =>
          \A r \in {layout(Layout_new(LayoutRoot), Stac)} :
              (r.err = "" /\ ~r.s.panic) =>
                  /\ last'.err = ""
                  /\ ~panicked'
                  /\ last'.ret = laid_out(r.s.nodes, r.visited, 1)]_vars

\* The (object, href) pair whose links the last operation has scanned, if any:
\* the one added, or the file a get has read.
scanned ==
    IF last.op = "add" THEN Some(last.arg[1])
    ELSE IF last.op = "add_child" THEN Some(last.arg[2])
    ELSE IF /\ last.op = "get" /\ last.err = ""
            /\ last.pre # None /\ last.pre[1].object = None
    THEN Some(<<FileAt(last.pre[1].href[1]), last.pre[1].href>>)
    ELSE None

\* Whether an item link of the scanned pair names an href.
item_link_names(pair, href) ==
    \E i \in DOMAIN pair[1].links :
        /\ is_item(pair[1].links[i])
        /\ href = (IF pair[2] # None THEN join(pair[2][1], pair[1].links[i].href)
                   ELSE pair[1].links[i].href)

\* C33: an unresolved node is classified as an item only because of an item
\* link that named its href while it occupied its slot.  Whenever a slot comes
\* to hold an unresolved node that is classified as an item, and did not hold
\* one before, the operation has scanned an item link that names the href of
\* the node; so a node created for a child or a parent link is not one, also
\* in a slot that a removed node used.
ItemOnlyByItemLink ==
    [][\A n \in DOMAIN nodes' :
           (/\ ~contains(free_nodes', n - 1)
            /\ nodes'[n].object = None
            /\ nodes'[n].href # None
            /\ node_is_item(Stac, n - 1)'
            /\ \/ n \notin DOMAIN nodes
               \/ contains(free_nodes, n - 1)
               \/ ~nodes[n].is_from_item_link)
           => /\ scanned' # None
              /\ item_link_names(scanned'[1], nodes'[n].href[1])]_vars

\* C34: a failed resolution leaves the store unchanged.  When the reader
\* fails in a get or an add_link, the nodes, the index and the free list are
\* as before, so the node keeps its href; and a get that follows a get of the
\* same handle that failed in the reader does not fail with UnresolvableNode.
FailedReadKeepsHref ==
    [][/\ (last'.op \in {"get", "add_link"} /\ last'.err = "Io")
          => /\ nodes' = nodes
             /\ hrefs' = hrefs
             /\ free_nodes' = free_nodes
       /\ (/\ last'.op = "get"
           /\ last.op = "get" /\ last.err = "Io"
           /\ last'.handle = last.handle)
          => last'.err # "UnresolvableNode"]_vars

\* C35: index consistency.  In every reachable state each entry of hrefs maps
\* an href to a live node that holds that href, and the href of every live
\* node has an entry.
IndexConsistent ==
    ~panicked =>
        /\ \A L \in DOMAIN hrefs :
               /\ hrefs[L] \in Live
               /\ nodes[hrefs[L] + 1].href = Some(L)
        /\ \A h \in Live :
               nodes[h + 1].href # None => nodes[h + 1].href[1] \in DOMAIN hrefs

\* A node in use: it holds an object or an href, or it has a parent or
\* children.
in_use(n) ==
    \/ n.object # None
    \/ n.href # None
    \/ n.parent # None
    \/ n.children # <<>>

\* C36 (1): the free list holds each handle at most once, and no node in use.
FreeListFresh ==
    ~panicked =>
        /\ \A i, j \in DOMAIN free_nodes :
               i # j => free_nodes[i] # free_nodes[j]
        /\ \A i \in DOMAIN free_nodes :
               /\ free_nodes[i] # ROOT_HANDLE
               /\ ~in_use(nodes[free_nodes[i] + 1])

\* C36 (2): an add of an object without an href, or with an href that the
\* index does not hold, returns a handle of no node in use.
AddReturnsFresh ==
    [][(/\ last'.op = "add" /\ ~panicked'
        /\ \/ last'.arg[1][2] = None
           \/ last'.arg[1][2][1] \notin DOMAIN hrefs)
       => \/ last'.pre = None
          \/ ~in_use(last'.pre[1])]_vars

\* C36: fresh allocation.  The operations being called with handles that were
\* not removed, the free list holds each handle at most once and no node in
\* use, and an add without a known href returns a handle of no node in use,
\* so that it overwrites no object.
FreshAllocation == []FreeListFresh /\ AddReturnsFresh

\* C37: right after new_with_reader with an object at an href, the root link
\* of the object resolving to another href, the node of the handle returned
\* holds the href of the object, and the index maps that href to the handle:
\* a child or item link of the tree of the root that names the href names
\* the node of the object.
ConstructedAtItsHref ==
    (/\ last.op = "new"
     /\ last.arg[1][2] # None
     /\ root_href_of(last.arg[1][1], last.arg[1][2]) # None
     /\ root_href_of(last.arg[1][1], last.arg[1][2]) # last.arg[1][2])
    => /\ nodes[created + 1].href = last.arg[1][2]
       /\ last.arg[1][2][1] \in DOMAIN hrefs
       /\ hrefs[last.arg[1][2][1]] = created

====
